---- MODULE Spec2Model ----
(***************************************************************************)
(* podqueue (src/src/main.py): an OPML-driven podcast archiver.  A run     *)
(* parses the OPML into self.feeds, then get_feeds walks the feeds and     *)
(* their episodes one at a time, writing metadata records and downloading  *)
(* cover images and audio into the destination directory.                  *)
(*                                                                         *)
(* Strings (titles, URLs, paths, type markers) are sequences of one-       *)
(* character strings, so that normalisation, joining and splitting of      *)
(* paths are computed character by character as the code computes them.    *)
(*                                                                         *)
(* Spec is the program run up to MaxRuns times on the file system its      *)
(* earlier runs left, the first run starting on an empty destination.      *)
(* SpecNorm, SpecLink and SpecOpml apply ascii_normalise, the link         *)
(* resolution of process_feed_episode and parse_opml to bounded inputs.    *)
(***************************************************************************)
EXTENDS Naturals, Sequences, FiniteSets, TLC

VARIABLES
  opml,          \* self.opml: None, a malformed document, or an element tree
  feeds,         \* self.feeds
  dest,          \* self.dest
  remoteFeed,    \* what feedparser.parse returns for each feed URL
  remoteStatus,  \* how the server answers a GET of each asset URL
  dirs,          \* file system: the directories that exist
  files,         \* file system: path -> content of the files that exist
  pc,            \* position of the process in entry()/get_feeds
  fi,            \* get_feeds: index of the feed of the outer loop
  ei,            \* get_feeds: index of the episode of the inner loop
  content,       \* get_feeds: the parsed feed of this iteration
  directory,     \* get_feeds: the feed directory of this iteration
  resp,          \* the local img / audio: the response of the last GET
  crash,         \* the exception that ended the process, or None
  run,           \* number of the current run of the program
  log,           \* this run's effects in order: mkdir, write and get events
  filesAtStart,  \* the paths of the files that existed when this run started
  changed,       \* whether the remote content differs from the previous run's
  prevEnd,       \* how the previous run ended: done, crashed, exited, or none
  fin,           \* input of the function applied in SpecNorm, SpecLink, SpecOpml
  fout,          \* its result
  fdone          \* whether it has been applied

vars == <<opml, feeds, dest, remoteFeed, remoteStatus, dirs, files, pc, fi, ei,
          content, directory, resp, crash, run, log, filesAtStart, changed,
          prevEnd, fin, fout, fdone>>

\* Python's None, where a string or a date may stand: no string of the model
\* equals it, its one element being longer than a character.
None == <<"<None>">>

\* ---------------------------------------------------------------- bounds

\* Longest string given to ascii_normalise in SpecNorm.
MaxLen == 3
\* Most enclosures of an entry in SpecLink.
MaxLinks == 3
\* Most elements below the root of an OPML document in SpecOpml.
MaxNodes == 4
\* Number of runs of the program in Spec.
MaxRuns == 2
\* Longest episode title in SpecNames.
MaxTitle == 2

\* ---------------------------------------------------------------- strings

\* str.split(' ') followed by '_'.join: every space becomes an underscore.
SpacesToUnderscores(s) ==
  [i \in 1..Len(s) |-> IF s[i] = " " THEN "_" ELSE s[i]]

LowerCase == {"a", "b", "c", "d", "e", "f", "g", "h", "i", "j", "k", "l", "m",
              "n", "o", "p", "q", "r", "s", "t", "u", "v", "w", "x", "y", "z"}
UpperCase == {"A", "B", "C", "D", "E", "F", "G", "H", "I", "J", "K", "L", "M",
              "N", "O", "P", "Q", "R", "S", "T", "U", "V", "W", "X", "Y", "Z"}
DigitChars == <<"0", "1", "2", "3", "4", "5", "6", "7", "8", "9">>

\* The characters the pattern [^a-zA-Z0-9\-\_\/\\\.] does not match.
AllowedChars ==
  LowerCase \cup UpperCase \cup {DigitChars[i] : i \in 1..10}
    \cup {"-", "_", "/", "\\", "."}

\* A variant that forgets the backslash of the character class.
ascii_normalise_no_backslash(input_str) ==
  [i \in 1..Len(input_str) |->
     IF input_str[i] \in AllowedChars \ {"\\"} THEN input_str[i] ELSE "_"]

\* re.sub(r'[^a-zA-Z0-9\-\_\/\\\.]', '_', input_str)
ascii_normalise(input_str) ==
  [i \in 1..Len(input_str) |->
     IF input_str[i] \in AllowedChars THEN input_str[i] ELSE "_"]

\* Index of the last occurrence of character c in s, 0 when there is none.
LastIndexOf(s, c) ==
  LET hits == {i \in 1..Len(s) : s[i] = c}
  IN IF hits = {} THEN 0 ELSE CHOOSE i \in hits : \A j \in hits : j <= i

\* os.path.join(a, b) of posixpath: an absolute b discards a.
PathJoin(a, b) ==
  IF b # <<>> /\ b[1] = "/" THEN b
  ELSE IF a = <<>> \/ a[Len(a)] = "/" THEN a \o b
  ELSE a \o <<"/">> \o b

\* os.path.split(p)[1]: what follows the last slash.
PathTail(p) == SubSeq(p, LastIndexOf(p, "/") + 1, Len(p))

\* The directory an open() of p needs: what precedes the last slash.
PathHead(p) ==
  LET k == LastIndexOf(p, "/")
  IN IF k = 0 THEN <<>> ELSE IF k = 1 THEN <<"/">> ELSE SubSeq(p, 1, k - 1)

\* os.path.splitext(p)[1]: from the last dot of the last component, unless
\* that dot leads the component.
PathExt(p) ==
  LET sep == LastIndexOf(p, "/")
      dot == LastIndexOf(p, ".")
  IN IF dot > sep + 1 /\ (\E i \in (sep + 1)..(dot - 1) : p[i] # ".")
       THEN SubSeq(p, dot, Len(p)) ELSE <<>>

\* ---------------------------------------------------------------- projection

\* dict.get(field, None) of a parsed feed or entry.
Get(d, field) == IF field \in DOMAIN d THEN d[field] ELSE None

\* Python truth of an optional string or date: neither None nor empty.
Truthy(v) == v # None /\ v # <<>>

\* An f-string's rendering of an optional string.
Format(v) == IF v = None THEN <<"N", "o", "n", "e">> ELSE v

Digit(d) == DigitChars[d + 1]

\* time.strftime(self.time_format, t) with the default format '%Y-%m-%d';
\* t is <<tm_year, tm_mon, tm_mday>>.
strftime(t) ==
  <<Digit(t[1] \div 1000), Digit((t[1] \div 100) % 10),
    Digit((t[1] \div 10) % 10), Digit(t[1] % 10), "-",
    Digit(t[2] \div 10), Digit(t[2] % 10), "-",
    Digit(t[3] \div 10), Digit(t[3] % 10)>>

\* 'audio' in s: s has the substring a-u-d-i-o.
Audio == <<"a", "u", "d", "i", "o">>
ContainsAudio(s) ==
  \E k \in 0..Len(s) : k + 5 <= Len(s) /\ SubSeq(s, k + 1, k + 5) = Audio

\* A variant of the scan that has no break: the last audio link wins.
RECURSIVE AudioHrefLast(_, _)
AudioHrefLast(links, link) ==
  IF links = <<>> THEN link
  ELSE AudioHrefLast(Tail(links),
         IF ContainsAudio(Head(links).type) THEN Head(links).href ELSE link)

\* The loop of lines 247-250: the href of the first link whose type holds
\* 'audio' replaces link; the break ends the scan there.
RECURSIVE AudioHref(_, _)
AudioHref(links, link) ==
  IF links = <<>> THEN link
  ELSE IF ContainsAudio(Head(links).type) THEN Head(links).href
  ELSE AudioHref(Tail(links), link)

EPISODE_FIELDS == <<"title", "link", "description", "published_parsed", "links">>
FEED_FIELDS == <<"title", "link", "description", "published", "image", "categories">>

Range(s) == {s[i] : i \in 1..Len(s)}

\* Whether episode_metadata.get('links', None) is true: present and not empty.
HasLinks(episode) == "links" \in DOMAIN episode /\ episode.links # <<>>

\* episode_metadata of process_feed_episode when the file names are computed:
\* the fields copied, the date formatted, the links turned into one link and
\* the links key removed (only when there were links).
EpisodeMetadata(episode) ==
  LET copied == [f \in Range(EPISODE_FIELDS) |-> Get(episode, f)]
      dated == IF Truthy(copied.published_parsed)
                 THEN [copied EXCEPT !.published_parsed = strftime(@)]
                 ELSE copied
  IN IF HasLinks(episode)
       THEN [f \in Range(EPISODE_FIELDS) \ {"links"} |->
               IF f = "link" THEN AudioHref(episode.links, dated.link)
               ELSE dated[f]]
       ELSE dated

\* episode_title and the f-string of the two file names, without the suffix.
EpisodeStem(md) ==
  Format(md.published_parsed) \o <<"_">> \o SpacesToUnderscores(md.title)

EpisodeMetaFilename(md, dir) ==
  ascii_normalise(PathJoin(PathJoin(dir, <<"e", "p", "i", "s", "o", "d", "e", "s">>),
                           EpisodeStem(md) \o <<".", "j", "s", "o", "n">>))

EpisodeAudioFilename(md, dir) ==
  ascii_normalise(PathJoin(PathJoin(dir, <<"e", "p", "i", "s", "o", "d", "e", "s">>),
                           EpisodeStem(md) \o <<".", "m", "p", "3">>))

\* feed_metadata of process_feed_metadata.
FeedMetadata(c) ==
  [f \in Range(FEED_FIELDS) \cup {"episode_count"} |->
     IF f = "episode_count" THEN Len(c.entries)
     ELSE IF f = "image" /\ "image" \in DOMAIN c.feed THEN c.feed.image.href
     ELSE Get(c.feed, f)]

\* metadata_filename of process_feed_metadata.
FeedMetaFilename(dir) ==
  ascii_normalise(PathJoin(dir, PathTail(dir) \o <<".", "j", "s", "o", "n">>))

\* image_filename of get_feed_image.
ImageFilename(image_url, dir) ==
  ascii_normalise(PathJoin(dir, PathTail(dir) \o PathExt(image_url)))

\* feed_dir_name and directory of get_feeds.
FeedDirectory(d, c) ==
  PathJoin(d, ascii_normalise(SpacesToUnderscores(c.feed.title)))

\* ---------------------------------------------------------------- OPML

\* An OPML document is the list of the elements below its root in document
\* order, each with its depth below the root (1 for head and body), its tag
\* and its attributes type and xmlUrl (None when the element has none).
Rss == <<"r", "s", "s">>

\* The parent of element i: the nearest element before it one level up.
Parent(doc, i) ==
  LET ups == {j \in 1..(i - 1) : doc[j].depth = doc[i].depth - 1}
  IN CHOOSE j \in ups : \A k \in ups : k <= j

\* xml_root.findall("*/outline/*[@type='rss']"): element i is a child, with
\* type="rss", of an outline that is a child of a child of the root.
OpmlMatch(doc, i) ==
  /\ doc[i].depth = 3
  /\ doc[i].type = Rss
  /\ doc[Parent(doc, i)].tag = "outline"

\* The loop of parse_opml from element i on: the xmlUrl of each match, in
\* document order, when it is neither absent nor empty.
RECURSIVE OpmlUrlsFrom(_, _)
OpmlUrlsFrom(doc, i) ==
  IF i > Len(doc) THEN <<>>
  ELSE (IF OpmlMatch(doc, i) /\ Truthy(doc[i].xmlUrl)
          THEN <<doc[i].xmlUrl>> ELSE <<>>)
       \o OpmlUrlsFrom(doc, i + 1)

\* What parse_opml appends to self.feeds.
parse_opml(doc) == OpmlUrlsFrom(doc, 1)

\* ---------------------------------------------------------------- the world

\* self.dest: the default 'output' directory, taken relative to the working
\* directory, which exists.
DefaultDest == <<"o", "u", "t">>

UrlF1 == <<"f", "1">>
UrlF2 == <<"f", "2">>
FeedUrls == {UrlF1, UrlF2}

UrlImage == <<"h", "/", "i", ".", "p", "n", "g">>
UrlX == <<"h", "/", "x">>
UrlY == <<"h", "/", "y">>
UrlPage == <<"h", "/", "w">>
AssetUrls == {UrlImage, UrlX, UrlY}

TypeMpeg == <<"a", "u", "d", "i", "o", "/", "m", "p", "e", "g">>
TypePng == <<"i", "m", "a", "g", "e", "/", "p", "n", "g">>
TypeXAudio == <<"x", "-", "a", "u", "d", "i", "o">>

Text == <<"t", "x", "t">>

\* An entry with a web page as its link, a picture and then an audio enclosure.
EntryAudio ==
  [title |-> <<"E", " ", "1">>, link |-> UrlPage, description |-> Text,
   published_parsed |-> <<2024, 1, 2>>,
   links |-> <<[type |-> TypePng, href |-> UrlPage],
               [type |-> TypeMpeg, href |-> UrlX]>>]

\* An entry with no publication date and no enclosure; its link is the audio.
EntryLinkOnly ==
  [title |-> <<"E", "?">>, link |-> UrlY, description |-> Text, links |-> <<>>]

\* An entry with neither an audio enclosure nor a link.
EntryNoLink ==
  [title |-> <<"N">>, description |-> Text, published_parsed |-> <<2024, 1, 3>>]

\* What the feed parser reports for a malformed or unreachable feed.
Bozo == [bozo |-> TRUE, feed |-> [title |-> <<>>], entries |-> <<>>]

ShowA ==
  [bozo |-> FALSE,
   feed |-> [title |-> <<"A", " ", "B">>, link |-> UrlPage, description |-> Text,
             image |-> [href |-> UrlImage]],
   entries |-> <<EntryAudio, EntryLinkOnly>>]

ShowC ==
  [bozo |-> FALSE,
   feed |-> [title |-> <<"C">>, description |-> Text],
   entries |-> <<EntryLinkOnly, EntryNoLink, EntryAudio>>]

ParsedFeeds == {Bozo, ShowA, ShowC}

Statuses == {"ok", "http_error", "conn_error"}

\* The body of a successful response.
Body(url) == [bytes |-> url]

Node(d, t, ty, u) == [depth |-> d, tag |-> t, type |-> ty, xmlUrl |-> u]

\* body > outline > two rss outlines.
DocNested ==
  <<Node(1, "head", None, None), Node(1, "body", None, None),
    Node(2, "outline", None, None),
    Node(3, "outline", Rss, UrlF1), Node(3, "outline", Rss, UrlF2)>>

\* body > rss outline, and one rss outline a level down.
DocMixed ==
  <<Node(1, "body", None, None), Node(2, "outline", Rss, UrlF1),
    Node(3, "outline", Rss, UrlF2)>>

MainOpmls ==
  {[kind |-> "none"], [kind |-> "malformed"],
   [kind |-> "xml", doc |-> DocNested], [kind |-> "xml", doc |-> DocMixed]}

\* ---------------------------------------------------------------- file system

\* The directories os.makedirs(d) makes sure of: d and each of its ancestors.
Ancestors(d) ==
  {SubSeq(d, 1, k) : k \in {j \in 1..Len(d) : j = Len(d) \/ d[j + 1] = "/"}}

\* Whether open(p, 'w') raises: the directory of p is missing, or p is one.
OpenFails(p) ==
  \/ PathHead(p) \notin dirs \cup {<<>>, <<"/">>}
  \/ p \in dirs

\* A variant of the existence test that sees directories only.
ExistsIsDir(p) == p \in dirs

\* os.path.exists(p): a file or a directory is there.
Exists(p) == p \in DOMAIN files \/ p \in dirs

WriteFile(p, c) ==
  files' = [q \in DOMAIN files \cup {p} |-> IF q = p THEN c ELSE files[q]]

Event(op, target) == [op |-> op, target |-> target, fi |-> fi, ei |-> ei]

\* ---------------------------------------------------------------- the run

NoContent == [bozo |-> TRUE, feed |-> [title |-> <<>>], entries |-> <<>>]

PureIdle == fin = <<>> /\ fout = <<>> /\ fdone = FALSE

Init ==
  /\ opml \in MainOpmls
  /\ feeds = <<>>
  /\ dest = DefaultDest
  /\ remoteFeed \in [FeedUrls -> ParsedFeeds]
  /\ remoteStatus \in [AssetUrls -> Statuses]
  /\ dirs = {}
  /\ files = <<>>
  /\ pc = "start"
  /\ fi = 0
  /\ ei = 0
  /\ content = NoContent
  /\ directory = <<>>
  /\ resp = "unbound"
  /\ crash = "none"
  /\ run = 1
  /\ log = <<>>
  /\ filesAtStart = {}
  /\ changed = FALSE
  /\ prevEnd = "none"
  /\ PureIdle

env == <<opml, dest, remoteFeed, remoteStatus, run, filesAtStart, changed,
         prevEnd, fin, fout, fdone>>

\* An exception nothing catches: the traceback ends the process.
Raise(exc) == pc' = "crashed" /\ crash' = exc

\* The episode of this iteration and what process_feed_episode derives from it.
Episode == content.entries[ei]
EpMeta == EpisodeMetadata(Episode)
EpMetaFile == EpisodeMetaFilename(EpMeta, directory)
EpAudioFile == EpisodeAudioFilename(EpMeta, directory)

\* podqueue.__init__, lines 41-46: without an OPML the process exits.
Start ==
  /\ pc = "start"
  /\ pc' = IF opml.kind = "none" THEN "exited" ELSE "parse_opml"
  /\ UNCHANGED <<feeds, dirs, files, fi, ei, content, directory, resp, crash, log>>
  /\ UNCHANGED env

\* A variant of ParseOpml with a lenient parser, which recovers a feed URL from
\* a malformed document instead of raising.
ParseOpmlLenient ==
  /\ pc = "parse_opml"
  /\ feeds' = feeds \o (IF opml.kind = "malformed" THEN <<UrlF1>>
                                                     ELSE parse_opml(opml.doc))
  /\ fi' = 1
  /\ pc' = "feed_loop"
  /\ UNCHANGED <<dirs, files, ei, content, directory, resp, crash, log>>
  /\ UNCHANGED env

\* parse_opml, lines 128-140; ET.parse raises on a malformed document.
ParseOpml ==
  /\ pc = "parse_opml"
  /\ IF opml.kind = "malformed"
       THEN /\ Raise("ParseError")
            /\ UNCHANGED <<feeds, fi>>
       ELSE /\ feeds' = feeds \o parse_opml(opml.doc)
            /\ fi' = 1
            /\ pc' = "feed_loop"
            /\ UNCHANGED crash
  /\ UNCHANGED <<dirs, files, ei, content, directory, resp, log>>
  /\ UNCHANGED env

\* A variant of FetchFeed that returns from get_feeds on a bozo feed instead
\* of continuing with the next one.
FetchFeedReturnsOnBozo ==
  /\ pc = "feed_loop"
  /\ fi <= Len(feeds)
  /\ content' = remoteFeed[feeds[fi]]
  /\ log' = Append(log, [Event("parse", feeds[fi]) EXCEPT !.ei = 0])
  /\ pc' = IF content'.bozo THEN "done" ELSE "mkdirs"
  /\ ei' = 0
  /\ UNCHANGED <<feeds, dirs, files, fi, directory, resp, crash>>
  /\ UNCHANGED env

\* get_feeds, lines 146-153: parse the next feed; a bozo feed is skipped.
FetchFeed ==
  /\ pc = "feed_loop"
  /\ fi <= Len(feeds)
  /\ content' = remoteFeed[feeds[fi]]
  /\ log' = Append(log, [Event("parse", feeds[fi]) EXCEPT !.ei = 0])
  /\ IF content'.bozo
       THEN fi' = fi + 1 /\ pc' = "feed_loop"
       ELSE fi' = fi /\ pc' = "mkdirs"
  /\ ei' = 0
  /\ UNCHANGED <<feeds, dirs, files, directory, resp, crash>>
  /\ UNCHANGED env

\* get_feeds, line 182: the list is exhausted.
FeedsDone ==
  /\ pc = "feed_loop"
  /\ fi > Len(feeds)
  /\ pc' = "done"
  /\ UNCHANGED <<feeds, dirs, files, fi, ei, content, directory, resp, crash, log>>
  /\ UNCHANGED env

\* get_feeds, lines 157-168: the feed directory and its episodes directory.
MakeDirs ==
  LET d == FeedDirectory(dest, content)
      e == PathJoin(d, <<"e", "p", "i", "s", "o", "d", "e", "s">>)
  IN /\ pc = "mkdirs"
     /\ directory' = d
     /\ dirs' = dirs \cup Ancestors(d) \cup Ancestors(e)
     /\ log' = log \o (IF d \in dirs THEN <<>> ELSE <<Event("mkdir", d)>>)
                   \o (IF e \in dirs THEN <<>> ELSE <<Event("mkdir", e)>>)
     /\ pc' = "feed_meta"
     /\ UNCHANGED <<feeds, files, fi, ei, content, resp, crash>>
     /\ UNCHANGED env

\* A variant of WriteFeedMetadata that leaves an existing record alone, as the
\* episode files are.
WriteFeedMetadataIfAbsent ==
  LET p == FeedMetaFilename(directory)
  IN /\ pc = "feed_meta"
     /\ IF Exists(p)
          THEN pc' = "img_get" /\ UNCHANGED <<files, log, crash>>
          ELSE IF OpenFails(p)
          THEN Raise("OSError") /\ UNCHANGED <<files, log>>
          ELSE /\ WriteFile(p, FeedMetadata(content))
               /\ log' = Append(log, Event("write", p))
               /\ pc' = "img_get"
               /\ UNCHANGED crash
     /\ UNCHANGED <<feeds, dirs, fi, ei, content, directory, resp>>
     /\ UNCHANGED env

\* process_feed_metadata, lines 185-208.
WriteFeedMetadata ==
  LET p == FeedMetaFilename(directory)
  IN /\ pc = "feed_meta"
     /\ IF OpenFails(p)
          THEN Raise("OSError") /\ UNCHANGED <<files, log>>
          ELSE /\ WriteFile(p, FeedMetadata(content))
               /\ log' = Append(log, Event("write", p))
               /\ pc' = "img_get"
               /\ UNCHANGED crash
     /\ UNCHANGED <<feeds, dirs, fi, ei, content, directory, resp>>
     /\ UNCHANGED env

\* get_feeds, lines 175-176, and get_feed_image, line 213: the GET of the
\* cover image; requests.get raises when the server cannot be reached.
GetFeedImage ==
  LET url == FeedMetadata(content).image
  IN /\ pc = "img_get"
     /\ IF ~Truthy(url)
          THEN /\ pc' = "ep_loop" /\ ei' = 1
               /\ UNCHANGED <<resp, crash, log>>
          ELSE /\ log' = Append(log, Event("get", url))
               /\ ei' = ei
               /\ IF remoteStatus[url] = "conn_error"
                    THEN Raise("ConnectionError") /\ UNCHANGED resp
                    ELSE /\ resp' = remoteStatus[url]
                         /\ pc' = "img_check"
                         /\ UNCHANGED crash
     /\ UNCHANGED <<feeds, dirs, files, fi, content, directory>>
     /\ UNCHANGED env

\* get_feed_image, lines 215-220: an HTTP error status ends the download.
CheckFeedImage ==
  /\ pc = "img_check"
  /\ IF resp = "http_error"
       THEN pc' = "ep_loop" /\ ei' = 1
       ELSE pc' = "img_write" /\ ei' = ei
  /\ UNCHANGED <<feeds, dirs, files, fi, content, directory, resp, crash, log>>
  /\ UNCHANGED env

\* get_feed_image, lines 222-231.
WriteFeedImage ==
  LET url == FeedMetadata(content).image
      p == ImageFilename(url, directory)
  IN /\ pc = "img_write"
     /\ IF OpenFails(p)
          THEN Raise("OSError") /\ UNCHANGED <<files, log, ei>>
          ELSE /\ WriteFile(p, Body(url))
               /\ log' = Append(log, Event("write", p))
               /\ pc' = "ep_loop" /\ ei' = 1
               /\ UNCHANGED crash
     /\ UNCHANGED <<feeds, dirs, fi, content, directory, resp>>
     /\ UNCHANGED env

\* A variant of the skip test that looks at the metadata record only.
AlreadySavedMetaOnly(meta, audio) == Exists(meta)

\* A variant of the skip test that never skips.
AlreadySavedNever(meta, audio) == FALSE

\* process_feed_episode, line 266: both files are on disk.
AlreadySaved(meta, audio) == Exists(meta) /\ Exists(audio)

\* A variant of CheckEpisode that starts the download of an episode that is not
\* archived before its metadata record is written.
CheckEpisodeDownloadsFirst ==
  /\ pc = "ep_loop"
  /\ ei <= Len(content.entries)
  /\ IF AlreadySaved(EpMetaFile, EpAudioFile)
       THEN /\ ei' = ei + 1 /\ pc' = "ep_loop"
            /\ log' = Append(log, Event("skip", EpMetaFile))
       ELSE /\ ei' = ei /\ pc' = "ep_get"
            /\ log' = log
  /\ UNCHANGED <<feeds, dirs, files, fi, content, directory, resp, crash>>
  /\ UNCHANGED env

\* get_feeds, line 179, and process_feed_episode, lines 236-268: the next
\* episode; it is skipped when both of its files exist.
CheckEpisode ==
  /\ pc = "ep_loop"
  /\ ei <= Len(content.entries)
  /\ IF AlreadySaved(EpMetaFile, EpAudioFile)
       THEN /\ ei' = ei + 1 /\ pc' = "ep_loop"
            /\ log' = Append(log, Event("skip", EpMetaFile))
       ELSE /\ ei' = ei /\ pc' = "ep_meta"
            /\ log' = log
  /\ UNCHANGED <<feeds, dirs, files, fi, content, directory, resp, crash>>
  /\ UNCHANGED env

\* get_feeds, line 179: the episodes of the feed are exhausted.
EpisodesDone ==
  /\ pc = "ep_loop"
  /\ ei > Len(content.entries)
  /\ fi' = fi + 1
  /\ pc' = "feed_loop"
  /\ UNCHANGED <<feeds, dirs, files, ei, content, directory, resp, crash, log>>
  /\ UNCHANGED env

\* process_feed_episode, lines 270-273.
WriteEpisodeMetadata ==
  /\ pc = "ep_meta"
  /\ IF OpenFails(EpMetaFile)
       THEN Raise("OSError") /\ UNCHANGED <<files, log>>
       ELSE /\ WriteFile(EpMetaFile, EpMeta)
            /\ log' = Append(log, Event("write", EpMetaFile))
            /\ pc' = "ep_get"
            /\ UNCHANGED crash
  /\ UNCHANGED <<feeds, dirs, fi, ei, content, directory, resp>>
  /\ UNCHANGED env

\* process_feed_episode, lines 275-277: the GET of the audio, made only when
\* the episode has a link; without one the local audio stays unbound.
GetAudio ==
  /\ pc = "ep_get"
  /\ IF Truthy(EpMeta.link)
       THEN /\ log' = Append(log, Event("get", EpMeta.link))
            /\ IF remoteStatus[EpMeta.link] = "conn_error"
                 THEN Raise("ConnectionError") /\ UNCHANGED resp
                 ELSE /\ resp' = remoteStatus[EpMeta.link]
                      /\ pc' = "ep_check"
                      /\ UNCHANGED crash
       ELSE /\ resp' = "unbound"
            /\ pc' = "ep_check"
            /\ UNCHANGED <<crash, log>>
  /\ UNCHANGED <<feeds, dirs, files, fi, ei, content, directory>>
  /\ UNCHANGED env

\* A variant of CheckAudio in which the audio file has been opened for writing
\* before the status is checked, so that a failed download leaves it empty.
CheckAudioOpensFirst ==
  /\ pc = "ep_check"
  /\ IF resp = "unbound"
       THEN Raise("UnboundLocalError") /\ UNCHANGED <<ei, files>>
       ELSE IF resp = "http_error"
       THEN /\ pc' = "ep_loop" /\ ei' = ei + 1 /\ UNCHANGED crash
            /\ WriteFile(EpAudioFile, [bytes |-> <<>>])
       ELSE pc' = "ep_write" /\ UNCHANGED <<ei, crash, files>>
  /\ UNCHANGED <<feeds, dirs, fi, content, directory, resp, log>>
  /\ UNCHANGED env

\* process_feed_episode, lines 279-284: audio.raise_for_status(); only an
\* HTTPError is caught, and the use of an unbound local raises.
CheckAudio ==
  /\ pc = "ep_check"
  /\ IF resp = "unbound"
       THEN Raise("UnboundLocalError") /\ UNCHANGED ei
       ELSE IF resp = "http_error"
       THEN pc' = "ep_loop" /\ ei' = ei + 1 /\ UNCHANGED crash
       ELSE pc' = "ep_write" /\ UNCHANGED <<ei, crash>>
  /\ UNCHANGED <<feeds, dirs, files, fi, content, directory, resp, log>>
  /\ UNCHANGED env

\* process_feed_episode, lines 286-292.
WriteAudio ==
  /\ pc = "ep_write"
  /\ IF OpenFails(EpAudioFile)
       THEN Raise("OSError") /\ UNCHANGED <<files, log, ei>>
       ELSE /\ WriteFile(EpAudioFile, Body(EpMeta.link))
            /\ log' = Append(log, Event("write", EpAudioFile))
            /\ pc' = "ep_loop" /\ ei' = ei + 1
            /\ UNCHANGED crash
  /\ UNCHANGED <<feeds, dirs, fi, content, directory, resp>>
  /\ UNCHANGED env

Ended == pc \in {"done", "crashed", "exited"}

\* What the remote side may look like at the next run: as it is, or with the
\* answer for one asset or the state of one feed changed.
NextStatuses ==
  {remoteStatus} \cup
  {[remoteStatus EXCEPT ![u] = st] : u \in AssetUrls, st \in Statuses}
NextFeeds ==
  {remoteFeed} \cup {[remoteFeed EXCEPT ![u] = c] : u \in FeedUrls, c \in ParsedFeeds}

\* The program is started again (entry(), lines 297-305) on the file system
\* the previous run left.
NewRun ==
  /\ Ended
  /\ run < MaxRuns
  /\ run' = run + 1
  /\ \E st \in NextStatuses, fd \in NextFeeds :
       /\ st = remoteStatus \/ fd = remoteFeed
       /\ remoteStatus' = st
       /\ remoteFeed' = fd
       /\ changed' = (st # remoteStatus \/ fd # remoteFeed)
  /\ filesAtStart' = DOMAIN files
  /\ prevEnd' = pc
  /\ feeds' = <<>>
  /\ pc' = "start"
  /\ fi' = 0
  /\ ei' = 0
  /\ content' = NoContent
  /\ directory' = <<>>
  /\ resp' = "unbound"
  /\ crash' = "none"
  /\ log' = <<>>
  /\ UNCHANGED <<opml, dest, dirs, files, fin, fout, fdone>>

Next ==
  \/ Start
  \/ ParseOpml
  \/ FetchFeed
  \/ FeedsDone
  \/ MakeDirs
  \/ WriteFeedMetadata
  \/ GetFeedImage
  \/ CheckFeedImage
  \/ WriteFeedImage
  \/ CheckEpisode
  \/ EpisodesDone
  \/ WriteEpisodeMetadata
  \/ GetAudio
  \/ CheckAudio
  \/ WriteAudio
  \/ NewRun

Spec == Init /\ [][Next]_vars

\* ---------------------------------------------------------------- pure functions

\* The program is not running: only a function is applied to an input.
MainIdle ==
  /\ opml = [kind |-> "none"]
  /\ feeds = <<>>
  /\ dest = DefaultDest
  /\ remoteFeed = [u \in FeedUrls |-> Bozo]
  /\ remoteStatus = [u \in AssetUrls |-> "ok"]
  /\ dirs = {}
  /\ files = <<>>
  /\ pc = "idle"
  /\ fi = 0
  /\ ei = 0
  /\ content = NoContent
  /\ directory = <<>>
  /\ resp = "unbound"
  /\ crash = "none"
  /\ run = 1
  /\ log = <<>>
  /\ filesAtStart = {}
  /\ changed = FALSE
  /\ prevEnd = "none"

main == <<opml, feeds, dest, remoteFeed, remoteStatus, dirs, files, pc, fi, ei,
          content, directory, resp, crash, run, log, filesAtStart, changed,
          prevEnd>>

\* Strings for ascii_normalise: letters, a digit, the backslash, the slash and
\* two characters outside the class.
NormChars == {"a", "Z", "7", "\\", "/", " ", "?"}
NormStrings == UNION {[1..n -> NormChars] : n \in 0..MaxLen}

NormInit == MainIdle /\ fin \in NormStrings /\ fout = <<>> /\ fdone = FALSE

NormApply ==
  /\ ~fdone
  /\ fout' = ascii_normalise(fin)
  /\ fdone' = TRUE
  /\ UNCHANGED <<fin, main>>

SpecNorm == NormInit /\ [][NormApply]_vars

\* Entries for the link resolution: with or without an entry-level link, with
\* no links collection or one of up to MaxLinks enclosures.
LinkPool == [type : {TypeMpeg, TypePng, TypeXAudio}, href : {UrlX, UrlY}]
LinkLists == UNION {[1..n -> LinkPool] : n \in 0..MaxLinks}
LinkEntries ==
  {[title |-> <<"E">>, link |-> UrlPage, links |-> ls] : ls \in LinkLists}
  \cup {[title |-> <<"E">>, links |-> ls] : ls \in LinkLists}
  \cup {[title |-> <<"E">>, link |-> UrlPage], [title |-> <<"E">>]}

LinkInit == MainIdle /\ fin \in LinkEntries /\ fout = <<>> /\ fdone = FALSE

LinkApply ==
  /\ ~fdone
  /\ fout' = EpisodeMetadata(fin).link
  /\ fdone' = TRUE
  /\ UNCHANGED <<fin, main>>

SpecLink == LinkInit /\ [][LinkApply]_vars

\* OPML documents of up to MaxNodes elements: head or body under the root,
\* outlines below, each with or without type="rss" and with an xmlUrl that is
\* absent, empty or one of two URLs.
\* The elements that may follow an element of depth prev (0: none before).
OpmlNodes(prev) ==
  {Node(1, t, None, None) : t \in {"head", "body"}}
  \cup {Node(d, "outline", ty, u) :
          d \in 2..(prev + 1), ty \in {Rss, None}, u \in {None, <<>>, UrlF1, UrlF2}}

\* The well-formed documents of up to n elements: an element lies at most one
\* level below the element before it, and the first one at depth 1.
RECURSIVE OpmlDocs(_)
OpmlDocs(n) ==
  IF n = 0 THEN {<<>>}
  ELSE LET shorter == OpmlDocs(n - 1)
       IN shorter \cup
          UNION {{Append(d, nd) :
                    nd \in OpmlNodes(IF d = <<>> THEN 0 ELSE d[Len(d)].depth)} :
                 d \in {x \in shorter : Len(x) = n - 1}}

OpmlInit ==
  /\ MainIdle
  /\ fin \in OpmlDocs(MaxNodes)
  /\ fout = <<>>
  /\ fdone = FALSE

OpmlApply ==
  /\ ~fdone
  /\ fout' = parse_opml(fin)
  /\ fdone' = TRUE
  /\ UNCHANGED <<fin, main>>

SpecOpml == OpmlInit /\ [][OpmlApply]_vars

\* ---------------------------------------------------------------- claims

\* C8 as stated: ascii_normalise keeps the length, yields only allowed
\* characters, replaces exactly the others by '_', and returns its input
\* unchanged if and only if the input matches [A-Za-z0-9_./\-]+, a pattern that
\* asks for at least one character and whose class has no backslash.
MatchesClaimedPattern(s) ==
  Len(s) >= 1 /\ \A i \in 1..Len(s) : s[i] \in AllowedChars \ {"\\"}

C8_Original ==
  fdone =>
    /\ Len(fout) = Len(fin)
    /\ \A i \in 1..Len(fin) :
         /\ fout[i] \in AllowedChars
         /\ fout[i] = (IF fin[i] \in AllowedChars THEN fin[i] ELSE "_")
    /\ (fout = fin) <=> MatchesClaimedPattern(fin)

\* C8, amended: ascii_normalise keeps the length, yields only characters of
\* the allowed set (letters, digits, '-', '_', '/', '.', and the backslash),
\* replaces exactly the others by '_' and keeps the rest in place, and returns
\* its input unchanged if and only if every character of the input is in the
\* allowed set; the empty string is returned unchanged.
C8_Normalise ==
  fdone =>
    /\ Len(fout) = Len(fin)
    /\ \A i \in 1..Len(fin) :
         /\ fout[i] \in AllowedChars
         /\ fout[i] = (IF fin[i] \in AllowedChars THEN fin[i] ELSE "_")
         /\ fin[i] \in {"a", "Z", "7", "\\", "/"} => fout[i] = fin[i]
         /\ fin[i] \in {" ", "?"} => fout[i] = "_"
    /\ (fout = fin) <=> (\A i \in 1..Len(fin) : fin[i] \notin {" ", "?"})

\* C8 witness: a string with a backslash and a space has been normalised.
C8_Witness ==
  fdone /\ fin = <<"a", "\\", " ">> /\ fout = <<"a", "\\", "_">>

\* C9 as stated: parse_opml yields the non-empty xmlUrl of every outline with
\* type="rss" at any depth under the body, in document order, duplicates kept.
RECURSIVE UnderBody(_, _)
UnderBody(doc, i) ==
  IF doc[i].depth = 1 THEN doc[i].tag = "body"
  ELSE UnderBody(doc, Parent(doc, i))

RECURSIVE ClaimedUrlsFrom(_, _)
ClaimedUrlsFrom(doc, i) ==
  IF i > Len(doc) THEN <<>>
  ELSE (IF /\ doc[i].depth >= 2
           /\ doc[i].tag = "outline"
           /\ doc[i].type = Rss
           /\ UnderBody(doc, i)
           /\ doc[i].xmlUrl # None
           /\ doc[i].xmlUrl # <<>>
          THEN <<doc[i].xmlUrl>> ELSE <<>>)
       \o ClaimedUrlsFrom(doc, i + 1)

C9_AnyDepth == fdone => fout = ClaimedUrlsFrom(fin, 1)

\* C10: the projected link is the href of the first enclosure whose type
\* contains "audio"; with no such enclosure (or none at all) it is the
\* entry-level link, or None when the entry has none.
C10_LinkResolution ==
  fdone =>
    LET links == IF "links" \in DOMAIN fin THEN fin.links ELSE <<>>
        audio == {i \in 1..Len(links) : ContainsAudio(links[i].type)}
    IN IF audio # {}
         THEN \E i \in audio : (\A j \in audio : i <= j) /\ fout = links[i].href
         ELSE fout = (IF "link" \in DOMAIN fin THEN fin.link ELSE None)

\* C10 witness: a picture, then two audio enclosures with different hrefs, on
\* an entry that has a link of its own; the first audio href is the link.
C10_Witness ==
  /\ fdone
  /\ "link" \in DOMAIN fin
  /\ "links" \in DOMAIN fin
  /\ Len(fin.links) = 3
  /\ fin.links[1].type = TypePng
  /\ fin.links[2] = [type |-> TypeXAudio, href |-> UrlY]
  /\ fin.links[3] = [type |-> TypeMpeg, href |-> UrlX]
  /\ fout = UrlY

\* What this run derives for feed i of self.feeds and its episode e.
ContentAt(i) == remoteFeed[feeds[i]]
DirectoryAt(i) == FeedDirectory(dest, ContentAt(i))
MetaFileAt(i, e) ==
  EpisodeMetaFilename(EpisodeMetadata(ContentAt(i).entries[e]), DirectoryAt(i))
AudioFileAt(i, e) ==
  EpisodeAudioFilename(EpisodeMetadata(ContentAt(i).entries[e]), DirectoryAt(i))
ArchivedAtStart(i, e) ==
  MetaFileAt(i, e) \in filesAtStart /\ AudioFileAt(i, e) \in filesAtStart
WellFormedFeeds == {i \in 1..Len(feeds) : ~ContentAt(i).bozo}
LogIndex == 1..Len(log)

\* C1: an episode whose metadata path and audio path both exist when the run
\* starts gets no HTTP request in that run, and neither of its two files is
\* written in that run.
C1_SkipRule ==
  \A i \in WellFormedFeeds : \A e \in 1..Len(ContentAt(i).entries) :
    ArchivedAtStart(i, e) =>
      \A k \in LogIndex :
        /\ ~(log[k].fi = i /\ log[k].ei = e /\ log[k].op \in {"get", "write"})
        /\ ~(log[k].op = "write"
             /\ log[k].target \in {MetaFileAt(i, e), AudioFileAt(i, e)})

\* C1 witness: in a second run, an episode archived by the first has been
\* skipped.
C1_Witness ==
  /\ run = 2
  /\ \E k \in LogIndex :
       /\ log[k].op = "skip"
       /\ ArchivedAtStart(log[k].fi, log[k].ei)

\* C2 as stated: when the remote content is the same as in the previous run
\* (taken here to have run to its end), the run rewrites no episode metadata
\* or audio file, and ends with the set of files it started with.
C2_Original ==
  (run >= 2 /\ ~changed /\ prevEnd = "done") =>
    /\ \A k \in LogIndex : ~(log[k].op = "write" /\ log[k].ei >= 1)
    /\ Ended => DOMAIN files = filesAtStart

\* C2, amended: when the remote content is the same as in the previous run,
\* the run writes the files of no episode that the previous run left archived
\* (both files present), and ends with the set of files it started with; an
\* episode whose audio is still missing has its metadata record rewritten.
C2_Idempotence ==
  (run >= 2 /\ ~changed) =>
    /\ \A k \in LogIndex :
         (log[k].op = "write" /\ log[k].ei >= 1) =>
           /\ ~ArchivedAtStart(log[k].fi, log[k].ei)
           /\ \A i \in WellFormedFeeds : \A e \in 1..Len(ContentAt(i).entries) :
                log[k].target \in {MetaFileAt(i, e), AudioFileAt(i, e)}
                  => ~ArchivedAtStart(i, e)
    /\ Ended => DOMAIN files = filesAtStart

\* C2 witness: a second run over unchanged remote content has ended normally,
\* as the first did, after skipping an archived episode and rewriting the metadata record of an
\* episode whose audio is missing.
C2_Witness ==
  /\ run = 2
  /\ ~changed
  /\ prevEnd = "done"
  /\ pc = "done"
  /\ \E k \in LogIndex : log[k].op = "skip"
  /\ \E k \in LogIndex :
       /\ log[k].op = "write"
       /\ log[k].ei >= 1
       /\ log[k].target \in filesAtStart

\* The feed record path as C3 gives it: <dest>/<name>/<name>.json, <name> being
\* the normalised feed title.
ClaimedFeedRecord(c) ==
  LET name == ascii_normalise(SpacesToUnderscores(c.feed.title))
  IN dest \o <<"/">> \o name \o <<"/">> \o name \o <<".", "j", "s", "o", "n">>

\* Feed i has been fetched as well formed and its metadata step is behind.
PastFeedRecord(i) ==
  /\ i \in WellFormedFeeds
  /\ \/ i < fi
     \/ i = fi /\ pc \notin {"feed_loop", "mkdirs", "feed_meta"}

FeedRecordWritten(i) ==
  \E k \in LogIndex :
    /\ log[k].op = "write"
    /\ log[k].fi = i
    /\ log[k].ei = 0
    /\ log[k].target = ClaimedFeedRecord(ContentAt(i))

\* C3: in every run, every feed fetched and not malformed has its record
\* <dest>/<name>/<name>.json written, whether or not the file existed, with
\* episode_count the number of entries of the fetched feed.
C3_FeedRecord ==
  /\ \A i \in 1..Len(feeds) : PastFeedRecord(i) => FeedRecordWritten(i)
  /\ pc = "img_get" =>
       /\ log[Len(log)].op = "write"
       /\ log[Len(log)].target = ClaimedFeedRecord(content)
       /\ ClaimedFeedRecord(content) \in DOMAIN files
       /\ files[ClaimedFeedRecord(content)].episode_count = Len(content.entries)
       /\ files[ClaimedFeedRecord(content)].title = content.feed.title

\* C3 witness: the record of a feed, on disk since the previous run, has just
\* been written again.
C3_Witness ==
  /\ run = 2
  /\ pc = "img_get"
  /\ ClaimedFeedRecord(content) \in filesAtStart
  /\ log[Len(log)] = [op |-> "write", target |-> ClaimedFeedRecord(content),
                      fi |-> fi, ei |-> 0]
  /\ files[ClaimedFeedRecord(content)].episode_count = 2

\* C4: a bozo feed gets no directory, no file and no request; the step after
\* its parse is the parse of the next feed URL (or the end of the list); and
\* the well-formed feed after it is processed, as is every well-formed feed of
\* a run that reaches the end of the list.
C4_FeedSkip ==
  /\ \A k \in LogIndex : ContentAt(log[k].fi).bozo => log[k].op = "parse"
  /\ \A k \in LogIndex :
       (log[k].op = "parse" /\ ContentAt(log[k].fi).bozo) =>
         IF k < Len(log)
           THEN log[k + 1].op = "parse" /\ log[k + 1].fi = log[k].fi + 1
           ELSE fi = log[k].fi + 1 /\ pc \in {"feed_loop", "done"}
  /\ \A i \in 1..Len(feeds) :
       (ContentAt(i).bozo /\ PastFeedRecord(i + 1)) => FeedRecordWritten(i + 1)
  /\ pc = "done" => \A j \in WellFormedFeeds : FeedRecordWritten(j)

\* C4 witness: a run has ended after skipping a bozo first feed and writing
\* the record of the second.
C4_Witness ==
  /\ pc = "done"
  /\ Len(feeds) = 2
  /\ ContentAt(1).bozo
  /\ ~ContentAt(2).bozo
  /\ FeedRecordWritten(2)
  /\ Len(log) >= 2
  /\ log[1].op = "parse" /\ log[2].op = "parse"

\* C5 as stated: for an episode without a resolved link the metadata record is
\* written, no request is made, the audio path stays absent and
\* process_feed_episode returns, so that the run goes on.
C5_NoLinkReturns ==
  ((pc = "ep_check" /\ resp = "unbound") \/ crash = "UnboundLocalError") =>
    /\ EpMetaFile \in DOMAIN files
    /\ \A k \in LogIndex : ~(log[k].op = "get" /\ log[k].fi = fi /\ log[k].ei = ei)
    /\ EpAudioFile \notin DOMAIN files
    /\ pc # "crashed"

\* C6 as stated: after a transport failure of the GET of a cover image or of
\* an episode's audio the run goes on (the episode's metadata record having
\* been written).
C6_TransportNonFatal ==
  \A k \in LogIndex :
    (log[k].op = "get" /\ remoteStatus[log[k].target] = "conn_error") =>
      /\ pc # "crashed"
      /\ log[k].ei >= 1 => MetaFileAt(log[k].fi, log[k].ei) \in DOMAIN files

\* C7: a download answered with an HTTP error status writes nothing: from the
\* GET to the return the files and directories stay as they are (the absent
\* destination stays absent, an existing one keeps its content), and after
\* the return the episode is still not archived, so the skip test will not
\* skip it.
C7_HttpErrorFrame ==
  [][/\ (pc = "img_get" /\ Truthy(FeedMetadata(content).image)
           /\ remoteStatus[FeedMetadata(content).image] = "http_error")
          => (files' = files /\ dirs' = dirs /\ pc' = "img_check")
     /\ (pc = "img_check" /\ resp = "http_error")
          => (files' = files /\ dirs' = dirs /\ pc' = "ep_loop")
     /\ (pc = "ep_get" /\ Truthy(EpMeta.link)
           /\ remoteStatus[EpMeta.link] = "http_error")
          => (files' = files /\ dirs' = dirs /\ pc' = "ep_check")
     /\ (pc = "ep_check" /\ resp = "http_error")
          => LET meta == EpMetaFile
                 audio == EpAudioFile
             IN /\ files' = files
                /\ dirs' = dirs
                /\ pc' = "ep_loop"
                /\ audio \notin DOMAIN files'
                /\ ~(meta \in DOMAIN files' /\ audio \in DOMAIN files')
    ]_vars

\* C7 witness: the download of an episode's audio has just ended on an HTTP
\* error; the metadata record is on disk and the audio file is not.
C7_Witness ==
  /\ pc = "ep_loop"
  /\ ei >= 2
  /\ log[Len(log)].op = "get"
  /\ log[Len(log)].fi = fi
  /\ log[Len(log)].ei = ei - 1
  /\ remoteStatus[log[Len(log)].target] = "http_error"
  /\ MetaFileAt(fi, ei - 1) \in DOMAIN files
  /\ AudioFileAt(fi, ei - 1) \notin DOMAIN files

\* ---------------------------------------------------------------- any input

\* A destination named in config.ini whose name has a space in it.
DestSpace == <<"o", " ", "t">>

\* A feed with a plain one-letter title and one episode.
ShowB ==
  [bozo |-> FALSE,
   feed |-> [title |-> <<"B">>, description |-> Text],
   entries |-> <<EntryAudio>>]

\* A feed whose title is an absolute path.
ShowRoot ==
  [bozo |-> FALSE,
   feed |-> [title |-> <<"/", "t">>, description |-> Text],
   entries |-> <<EntryAudio>>]

InputFeeds == {ShowA, ShowB, ShowRoot}

\* The program started on an OPML document, with either destination and any of
\* the feeds above behind the two URLs, every asset being served.
InputInit ==
  /\ opml \in {[kind |-> "xml", doc |-> DocNested], [kind |-> "xml", doc |-> DocMixed]}
  /\ feeds = <<>>
  /\ dest \in {DefaultDest, DestSpace}
  /\ remoteFeed \in [FeedUrls -> InputFeeds]
  /\ remoteStatus = [u \in AssetUrls |-> "ok"]
  /\ dirs = {}
  /\ files = <<>>
  /\ pc = "start"
  /\ fi = 0
  /\ ei = 0
  /\ content = NoContent
  /\ directory = <<>>
  /\ resp = "unbound"
  /\ crash = "none"
  /\ run = 1
  /\ log = <<>>
  /\ filesAtStart = {}
  /\ changed = FALSE
  /\ prevEnd = "none"
  /\ PureIdle

SpecInput == InputInit /\ [][Next]_vars

\* The layout C11 gives for the feed at URL u: the feed record with its episode
\* count and, for every entry, its metadata record and its audio file holding
\* the fetched bytes.
LayoutComplete(u) ==
  LET c == remoteFeed[u]
      dir == FeedDirectory(dest, c)
      record == FeedMetaFilename(dir)
  IN /\ record \in DOMAIN files
     /\ files[record].episode_count = Len(c.entries)
     /\ \A e \in 1..Len(c.entries) :
          LET md == EpisodeMetadata(c.entries[e])
              meta == EpisodeMetaFilename(md, dir)
              audio == EpisodeAudioFilename(md, dir)
          IN /\ meta \in DOMAIN files
             /\ audio \in DOMAIN files
             /\ files[audio] = Body(md.link)

\* Every fetch of the run succeeds: the feeds are well formed, every entry has
\* something to download, and every asset is served.
EveryFetchSucceeds ==
  /\ \A u \in FeedUrls :
       /\ ~remoteFeed[u].bozo
       /\ \A e \in 1..Len(remoteFeed[u].entries) :
            Truthy(EpisodeMetadata(remoteFeed[u].entries[e]).link)
  /\ \A u \in AssetUrls : remoteStatus[u] = "ok"

\* C11 as stated: a first run over an empty destination (the default one) in
\* which every fetch succeeds ends with the complete layout for the feed URL
\* of every type="rss" outline under the body of the OPML, an outline placed
\* directly under the body included.
C11_EndToEnd ==
  (run = 1 /\ Ended /\ dest = DefaultDest /\ EveryFetchSucceeds) =>
    LET urls == ClaimedUrlsFrom(opml.doc, 1)
    IN \A k \in 1..Len(urls) : LayoutComplete(urls[k])

\* C12 as stated: every episode metadata record written to disk has exactly
\* the keys title, link, description and published; the links collection is
\* never among them, whether the entry had enclosures or not.
C12_RecordKeys ==
  pc = "ep_get" =>
    /\ EpMetaFile \in DOMAIN files
    /\ "links" \notin DOMAIN files[EpMetaFile]
    /\ DOMAIN files[EpMetaFile] = {"title", "link", "description", "published"}

\* C13: with no OPML configured, or with an OPML that is not well-formed XML,
\* the run ends before any feed work: the process exits (no OPML) or dies of
\* the parse error (malformed), no feed URL is extracted, no request is made,
\* and no directory or file is created or written.
C13_AbortBeforeFeeds ==
  /\ opml.kind = "none" =>
       /\ pc \in {"start", "exited"}
       /\ crash = "none"
  /\ opml.kind = "malformed" =>
       /\ pc \in {"start", "parse_opml", "crashed"}
       /\ pc = "crashed" <=> crash = "ParseError"
  /\ opml.kind \in {"none", "malformed"} =>
       /\ feeds = <<>>
       /\ log = <<>>
       /\ dirs = {}
       /\ files = <<>>

\* C13 witness: a second run on a malformed OPML has died of the parse error,
\* as the first did, with nothing requested and nothing on disk.
C13_Witness ==
  /\ opml.kind = "malformed"
  /\ run = 2
  /\ prevEnd = "crashed"
  /\ pc = "crashed"
  /\ crash = "ParseError"
  /\ log = <<>>
  /\ files = <<>>

\* C14: an episode is skipped if and only if its metadata record and its audio
\* file are both on disk; in every other case (one of the two, or neither) the
\* run rewrites the metadata record and then goes on to the download, the GET
\* of the episode's resolved link; a download that succeeds leaves both files
\* on disk with the fetched bytes, no step removes a file, and an episode
\* archived when a later run starts is skipped by that run.
C14_BothExist ==
  [][/\ (pc = "ep_loop" /\ ei <= Len(content.entries)) =>
          LET both == EpMetaFile \in DOMAIN files /\ EpAudioFile \in DOMAIN files
              skipped == /\ pc' = "ep_loop"
                         /\ ei' = ei + 1
                         /\ files' = files
                         /\ log' = Append(log, Event("skip", EpMetaFile))
          IN /\ skipped <=> both
             /\ ~both => (pc' = "ep_meta" /\ ei' = ei /\ files' = files /\ log' = log)
             /\ (run >= 2 /\ ArchivedAtStart(fi, ei)) => skipped
     /\ pc = "ep_meta" =>
          /\ pc' = "ep_get"
          /\ ei' = ei
          /\ EpMetaFile \in DOMAIN files'
          /\ files'[EpMetaFile] = EpMeta
          /\ log' = Append(log, Event("write", EpMetaFile))
     /\ (pc = "ep_get" /\ Truthy(EpMeta.link)) =>
          /\ log' = Append(log, Event("get", EpMeta.link))
          /\ ei' = ei
          /\ files' = files
     /\ pc = "ep_write" =>
          /\ EpMetaFile \in DOMAIN files'
          /\ EpAudioFile \in DOMAIN files'
          /\ files'[EpAudioFile] = Body(EpMeta.link)
          /\ pc' = "ep_loop"
     /\ DOMAIN files \subseteq DOMAIN files'
    ]_vars

\* C14 witness: after a first run that ran to its end, a second run met an
\* episode whose metadata record was on disk without its audio file, rewrote
\* the record, requested the audio and wrote it.
C14_Witness ==
  /\ run = 2
  /\ prevEnd = "done"
  /\ pc = "ep_loop"
  /\ ei >= 2
  /\ Len(log) >= 3
  /\ LET n == Len(log)
     IN /\ log[n - 2].op = "write"
        /\ log[n - 2].target = MetaFileAt(fi, ei - 1)
        /\ log[n - 2].target \in filesAtStart
        /\ log[n - 1].op = "get"
        /\ log[n - 1].ei = ei - 1
        /\ log[n].op = "write"
        /\ log[n].target = AudioFileAt(fi, ei - 1)
        /\ log[n].target \notin filesAtStart
        /\ log[n].target \in DOMAIN files

\* The position of an event in the run: feed by feed, the feed-level steps
\* (ei = 0) before the episodes, the episodes in feed order.
Precedes(a, b) == a.fi < b.fi \/ (a.fi = b.fi /\ a.ei <= b.ei)

\* C15: the feeds are parsed in the order of the URLs the OPML extractor
\* produced, every step of a feed or episode comes before the steps of the
\* next one, the feed record is written before the cover image is requested
\* and before any step of an episode, and an episode's metadata record is
\* written immediately before its audio request.
C15_Ordering ==
  /\ opml.kind = "xml" /\ pc \notin {"start", "parse_opml"}
       => feeds = parse_opml(opml.doc)
  /\ \A k \in LogIndex :
       /\ log[k].fi \in 1..Len(feeds)
       /\ k < Len(log) => Precedes(log[k], log[k + 1])
       /\ log[k].op = "parse" =>
            /\ log[k].target = feeds[log[k].fi]
            /\ \A j \in 1..(k - 1) : log[j].fi < log[k].fi
       /\ ((log[k].op = "get" /\ log[k].ei = 0) \/ log[k].ei >= 1) =>
            \E j \in 1..(k - 1) :
              /\ log[j].op = "write"
              /\ log[j].fi = log[k].fi
              /\ log[j].ei = 0
              /\ log[j].target = FeedMetaFilename(DirectoryAt(log[k].fi))
       /\ (log[k].op = "get" /\ log[k].ei >= 1) =>
            /\ k >= 2
            /\ log[k - 1] = [op |-> "write", fi |-> log[k].fi, ei |-> log[k].ei,
                             target |-> MetaFileAt(log[k].fi, log[k].ei)]

\* C15 witness: a run over two feeds has ended; the first feed's cover image
\* was requested, and the audio of an episode of the second feed after it.
C15_Witness ==
  /\ pc = "done"
  /\ Len(feeds) = 2
  /\ \E k \in LogIndex : \E l \in LogIndex :
       /\ k < l
       /\ log[k].fi = 1 /\ log[k].op = "get" /\ log[k].ei = 0
       /\ log[l].fi = 2 /\ log[l].op = "get" /\ log[l].ei >= 1

\* ---------------------------------------------------------------- episode names

\* Entries of one feed: titles of up to MaxTitle characters (a letter, the
\* space, the underscore, a character outside the allowed set), with one of
\* two publication dates or none.
NameChars == {"E", " ", "_", "?"}
NameTitles == UNION {[1..n -> NameChars] : n \in 1..MaxTitle}
NameEntries ==
  {[title |-> t, link |-> UrlX, published_parsed |-> d] :
     t \in NameTitles, d \in {<<2024, 1, 2>>, <<2024, 1, 3>>}}
  \cup {[title |-> t, link |-> UrlX] : t \in NameTitles}

\* The two paths process_feed_episode derives for an entry of a feed whose
\* directory is dir.
EpisodePaths(episode, dir) ==
  [meta |-> EpisodeMetaFilename(EpisodeMetadata(episode), dir),
   audio |-> EpisodeAudioFilename(EpisodeMetadata(episode), dir)]

NamesInit ==
  /\ MainIdle
  /\ fin \in NameEntries \X NameEntries
  /\ fout = <<>>
  /\ fdone = FALSE

NamesApply ==
  /\ ~fdone
  /\ fout' = <<EpisodePaths(fin[1], PathJoin(DefaultDest, <<"A">>)),
               EpisodePaths(fin[2], PathJoin(DefaultDest, <<"A">>))>>
  /\ fdone' = TRUE
  /\ UNCHANGED <<fin, main>>

SpecNames == NamesInit /\ [][NamesApply]_vars

\* C16 as stated: two entries of one feed get the same metadata path or the
\* same audio path only if they have the same formatted published timestamp
\* and the same title; entries that differ in either (entries with no date
\* included) get distinct paths.
C16_NamingUnique ==
  fdone =>
    ((fout[1].meta = fout[2].meta \/ fout[1].audio = fout[2].audio) =>
       /\ fin[1].title = fin[2].title
       /\ EpisodeMetadata(fin[1]).published_parsed
            = EpisodeMetadata(fin[2]).published_parsed)

\* p lies beneath the destination directory: it is <dest>/<something>.
Beneath(p) ==
  /\ Len(p) > Len(dest) + 1
  /\ SubSeq(p, 1, Len(dest) + 1) = dest \o <<"/">>

\* C17 as stated: whatever the feed and episode titles, every directory the
\* run creates is the destination or lies beneath it, and every file it writes
\* lies beneath it.
C17_Containment ==
  /\ \A d \in dirs : d = dest \/ Beneath(d)
  /\ \A p \in DOMAIN files : Beneath(p)

\* C18 as stated: whatever the destination string, each file the run opens for
\* writing (feed record, cover image, episode metadata, episode audio) has as
\* its directory part the feed directory, or its episodes directory, that
\* get_feeds created for the feed: normalising the full path does not move the
\* file into a directory that was not created, and no open fails for it.
C18_PathConsistency ==
  LET episodes == PathJoin(directory, <<"e", "p", "i", "s", "o", "d", "e", "s">>)
  IN /\ pc \in {"feed_meta", "img_write", "ep_meta", "ep_write"} =>
          directory \in dirs /\ episodes \in dirs
     /\ pc = "feed_meta" => PathHead(FeedMetaFilename(directory)) = directory
     /\ pc = "img_write" =>
          PathHead(ImageFilename(FeedMetadata(content).image, directory)) = directory
     /\ pc = "ep_meta" => PathHead(EpMetaFile) = episodes
     /\ pc = "ep_write" => PathHead(EpAudioFile) = episodes
     /\ crash # "OSError"

\* ---------------------------------------------------------------- interruption

\* process_feed_episode, line 287: open(episode_audio_filename, 'wb') creates
\* the audio file, or empties the one that is there.
OpenAudio ==
  /\ pc = "ep_write"
  /\ IF OpenFails(EpAudioFile)
       THEN Raise("OSError") /\ UNCHANGED files
       ELSE /\ WriteFile(EpAudioFile, [bytes |-> <<>>])
            /\ pc' = "ep_chunk"
            /\ UNCHANGED crash
  /\ UNCHANGED <<feeds, dirs, fi, ei, content, directory, resp, log>>
  /\ UNCHANGED env

\* process_feed_episode, lines 288-292: the body is written chunk by chunk
\* (an element of the body standing for one chunk); after the last one the
\* file is closed and the call returns.
WriteAudioChunk ==
  LET body == Body(EpMeta.link).bytes
      written == files[EpAudioFile].bytes
  IN /\ pc = "ep_chunk"
     /\ IF Len(written) < Len(body)
          THEN /\ WriteFile(EpAudioFile,
                            [bytes |-> Append(written, body[Len(written) + 1])])
               /\ UNCHANGED <<pc, ei, log>>
          ELSE /\ pc' = "ep_loop" /\ ei' = ei + 1
               /\ log' = Append(log, Event("write", EpAudioFile))
               /\ UNCHANGED files
     /\ UNCHANGED <<feeds, dirs, fi, content, directory, resp, crash>>
     /\ UNCHANGED env

\* The process is terminated from outside, wherever it is; what it has put on
\* disk stays.
Kill ==
  /\ pc \notin {"done", "crashed", "exited", "idle"}
  /\ Raise("Killed")
  /\ UNCHANGED <<feeds, dirs, files, fi, ei, content, directory, resp, log>>
  /\ UNCHANGED env

\* The program started on an OPML with two feeds that are served, as is every
\* asset.
KillInit ==
  /\ opml = [kind |-> "xml", doc |-> DocNested]
  /\ feeds = <<>>
  /\ dest = DefaultDest
  /\ remoteFeed \in [FeedUrls -> {ShowA, ShowB}]
  /\ remoteStatus = [u \in AssetUrls |-> "ok"]
  /\ dirs = {}
  /\ files = <<>>
  /\ pc = "start"
  /\ fi = 0
  /\ ei = 0
  /\ content = NoContent
  /\ directory = <<>>
  /\ resp = "unbound"
  /\ crash = "none"
  /\ run = 1
  /\ log = <<>>
  /\ filesAtStart = {}
  /\ changed = FALSE
  /\ prevEnd = "none"
  /\ PureIdle

NextKill ==
  \/ Start
  \/ ParseOpml
  \/ FetchFeed
  \/ FeedsDone
  \/ MakeDirs
  \/ WriteFeedMetadata
  \/ GetFeedImage
  \/ CheckFeedImage
  \/ WriteFeedImage
  \/ CheckEpisode
  \/ EpisodesDone
  \/ WriteEpisodeMetadata
  \/ GetAudio
  \/ CheckAudio
  \/ OpenAudio
  \/ WriteAudioChunk
  \/ Kill
  \/ NewRun

SpecKill == KillInit /\ [][NextKill]_vars

\* C19 as stated: whenever a run skips an episode as already archived, the
\* episode's audio file holds the complete body of a successful download; a
\* file that an interrupted run left partially written is not skipped.
C19_Resumable ==
  \A k \in LogIndex :
    log[k].op = "skip" =>
      LET audio == AudioFileAt(log[k].fi, log[k].ei)
          link == EpisodeMetadata(ContentAt(log[k].fi).entries[log[k].ei]).link
      IN /\ audio \in DOMAIN files
         /\ files[audio] = Body(link)

====
